---- MODULE Spec2Model ----
(***************************************************************************)
(* EventQueue of the DevCycle Go server SDK (src/eventqueue.go): the       *)
(* buffering policy, the flush pipeline, outcome classification and the    *)
(* lifecycle (initialize / Close), run by concurrent callers and by the    *)
(* ticker goroutine.  The evaluation engine (DevCycleLocalBucketing) and   *)
(* the BucketingPool are collaborators whose code is not part of the       *)
(* sources at hand; they are modelled from their documented contract.      *)
(***************************************************************************)
EXTENDS Integers, Sequences, FiniteSets, Bags, TLC

(***************************************************************************)
(* Bounds of the model.                                                    *)
(***************************************************************************)
MaxIds == 3          \* nothing begins once this many PayloadIds have been handed out
MaxConcIds == 1      \* the same, where calls run concurrently
MaxActive == 2       \* calls and ticks under way at a time, where they run concurrently
MaxPoolEvents == 1   \* events a pool member buffers on its own at a time
MaxBatches == 3      \* longest payload list handed to flushEventPayloads alone
JitterSteps == 4     \* rand.Float64() draws one of 0/JitterSteps .. (JitterSteps-1)/JitterSteps
MaxBackoffAttempt == 8   \* largest attempt number exponentialBackoff is looked at for

(***************************************************************************)
(* Configuration (DVCOptions) and the engine's batching.                   *)
(***************************************************************************)
FlushEventQueueSize == 2   \* soft threshold
MaxEventQueueSize == 3     \* hard cap
BatchSize == 1             \* records the engine puts in one FlushPayload

Workers == {"w1", "w2"}
Timer == "timer"
Threads == Workers \cup {Timer}

Primary == "lb"
PoolMembers == <<"o1", "o2">>
Pool == {PoolMembers[i] : i \in 1..Len(PoolMembers)}
Engines == {Primary} \cup Pool

Nil == "nil"

(***************************************************************************)
(* What one delivery of a batch can come to: a failure before a response   *)
(* is there (json.Marshal, http.NewRequest, HTTPClient.Do, io.ReadAll), or *)
(* a response with a status code.                                          *)
(***************************************************************************)
Status(code) == [fail |-> "none", status |-> code]
Broken(where) == [fail |-> where, status |-> 0]

StatusCodes == {200, 201, 204, 302, 399, 400, 404, 499, 500, 503}
Deliveries ==
    {Broken(w) : w \in {"marshal", "request", "transport", "read"}}
        \cup {Status(c) : c \in StatusCodes}
\* the answers drawn where whole behaviours of the queue are explored
EndpointAnswers == {Status(201), Status(400), Status(503)}

VARIABLES
    options,         \* DVCOptions: the two logging-suppression flags
    initState,       \* how initialize ended: "new" (not called), "ready", or
                     \* "marshalFailed" / "initEventQueueFailed": the call that failed
    closed,          \* EventQueue.closed
    flushStop,       \* messages in the channel e.flushStop (capacity 1)
    eventsFlushed,   \* EventQueue.eventsFlushed
    eventsReported,  \* EventQueue.eventsReported
    buf,             \* engine -> events buffered in it
    pending,         \* engine -> payloads drained from it, not yet reported
    flushOpen,       \* startFlushEvents calls without their finishFlushEvents
    nextId,          \* next PayloadId the engines hand out
    op,              \* thread -> the operation it runs (or ran last)
    pc,              \* thread -> where it is in that operation
    queueSize,       \* thread -> checkEventQueueSize's local queueSize
    payloads,        \* thread -> the payload list being sent
    idx,             \* thread -> how many of them have been sent
    result,          \* thread -> the FlushResult being built
    sent,            \* thread -> the deliveries of the payloads sent so far
    owner,           \* thread -> the engine the payload list came from
    poolTodo,        \* thread -> pool members ProcessAll has still to visit
    flushErr,        \* thread -> FlushEvents' err
    call,            \* thread -> whether its call ran FlushEvents, whether a drain
                     \* failed in it, the batches drained in it so far, the
                     \* engines that have had their report in it, the engines
                     \* whose drain failed in it
    ret,             \* the call that returned in the last step, and its result
    lastReport,      \* the outcome report an engine received in the last step
    closeCalled,     \* Close has been called (it is single-use)
    dispatched,      \* bag of PayloadIds: the sends to the endpoint
    reported,        \* bag of PayloadIds: the outcome reports the engines received
    drained,         \* engine -> batches drained from it so far
    log,             \* what Close did, in order
    bucketingObjectPool,  \* EventQueue.bucketingObjectPool: its members, in
                          \* the order ProcessAll visits them
    req              \* DVCClient.performRequest: where it is, its locals, what it did

queueVars == <<options, initState, closed, flushStop, eventsFlushed, eventsReported>>
engineVars == <<buf, pending, flushOpen, nextId>>
threadVars == <<op, pc, queueSize, payloads, idx, result, sent, owner, poolTodo, flushErr, call>>
stepVars == <<ret, lastReport>>
ghostVars == <<closeCalled, dispatched, reported, drained, log>>
vars == <<queueVars, engineVars, threadVars, ghostVars, stepVars, req, bucketingObjectPool>>

\* no FlushEvents yet in the call
NoCall == [ran |-> FALSE, failed |-> FALSE, batches |-> 0, reports |-> <<>>, noDrain |-> {}]

NoReturn == [by |-> "none", op |-> "none", value |-> Nil, flushErr |-> Nil, call |-> NoCall]

NoReport == [engine |-> "none", payloads |-> <<>>, sent |-> <<>>,
             result |-> [SuccessPayloads |-> <<>>, FailurePayloads |-> <<>>,
                         FailureWithRetryPayloads |-> <<>>]]

\* performRequest before it is called
NoRequest ==
    [pc |-> "idle", attempt |-> 0, tried |-> <<>>, calls |-> 0, sleeps |-> 0,
     sleep |-> [attempt |-> 0, length |-> 0],
     httpResponse |-> Nil, err |-> Nil, result |-> Nil]

\* a step of the event queue after initialize: performRequest has no part in
\* it, and the pool keeps its members
QueueStep == UNCHANGED <<req, bucketingObjectPool>>

\* a step in which no call returns and no engine gets a report
Silent == ret' = NoReturn /\ lastReport' = NoReport /\ QueueStep

EmptyResult ==
    [SuccessPayloads |-> <<>>, FailurePayloads |-> <<>>, FailureWithRetryPayloads |-> <<>>]

Range(s) == {s[i] : i \in 1..Len(s)}

Min(a, b) == IF a < b THEN a ELSE b

(***************************************************************************)
(* The evaluation engine, from its contract.                               *)
(***************************************************************************)
\* checkEventQueueSize(): the number of events buffered
EngineQueueSize(e) == buf[e]

\* drainBatches(): snapshot-and-clear of n buffered events into payloads of
\* at most BatchSize records with fresh PayloadIds first, first+1, ...
RECURSIVE DrainBatches(_, _)
DrainBatches(n, first) ==
    IF n = 0 THEN <<>>
    ELSE <<[PayloadId |-> first, Records |-> Min(n, BatchSize)]>>
             \o DrainBatches(n - Min(n, BatchSize), first + 1)

\* the records of the pending payloads of engine e whose id is in ids
RECURSIVE RecordsOf(_)
RecordsOf(ps) ==
    IF ps = {} THEN 0
    ELSE LET p == CHOOSE q \in ps : TRUE IN p.Records + RecordsOf(ps \ {p})

\* HandleFlushResults(result): successes and permanent failures retire their
\* payload; a retryable failure returns the payload's records to the buffer
ResultIds(r) == r.SuccessPayloads \o r.FailurePayloads \o r.FailureWithRetryPayloads

ReportBag(r) ==
    LET ids == ResultIds(r)
    IN [x \in Range(ids) |-> Cardinality({i \in 1..Len(ids) : x = ids[i]})]

EngineHandleFlushResults(e, r) ==
    LET ids == Range(ResultIds(r))
        back == {p \in pending[e] : p.PayloadId \in Range(r.FailureWithRetryPayloads)}
    IN /\ pending' = [pending EXCEPT ![e] = {p \in @ : p.PayloadId \notin ids}]
       /\ buf' = [buf EXCEPT ![e] = @ + RecordsOf(back)]
       /\ reported' = reported (+) ReportBag(r)

(***************************************************************************)
(* The EventQueue value before initialize.                                 *)
(***************************************************************************)
Fresh(state, timerAt, members) ==
    /\ options = [DisableAutomaticEventLogging |-> FALSE,
                  DisableCustomEventLogging |-> FALSE]
    /\ initState = state
    /\ closed = FALSE
    /\ flushStop = 0
    /\ eventsFlushed = 0
    /\ eventsReported = 0
    /\ buf = [e \in Engines |-> 0]
    /\ pending = [e \in Engines |-> {}]
    /\ flushOpen = 0
    /\ nextId = 1
    /\ op = [t \in Threads |-> "none"]
    /\ pc = [t \in Threads |-> IF t = Timer THEN timerAt ELSE "idle"]
    /\ queueSize = [t \in Threads |-> 0]
    /\ payloads = [t \in Threads |-> <<>>]
    /\ idx = [t \in Threads |-> 0]
    /\ result = [t \in Threads |-> EmptyResult]
    /\ sent = [t \in Threads |-> <<>>]
    /\ owner = [t \in Threads |-> Primary]
    /\ poolTodo = [t \in Threads |-> <<>>]
    /\ flushErr = [t \in Threads |-> Nil]
    /\ call = [t \in Threads |-> NoCall]
    /\ ret = NoReturn
    /\ lastReport = NoReport
    /\ closeCalled = FALSE
    /\ dispatched = EmptyBag
    /\ reported = EmptyBag
    /\ drained = [e \in Engines |-> 0]
    /\ log = <<>>
    /\ req = NoRequest
    /\ bucketingObjectPool = members

\* the queue before initialize, with a pool of one member
InitNew == Fresh("new", "off", <<"o1">>)

\* the queue as the client holds it: initialize has returned nil with the
\* default options, the ticker goroutine is waiting in its select
Init == Fresh("ready", "select", <<"o1">>)

(***************************************************************************)
(* initialize (only the local-bucketing branch: the client creates an      *)
(* EventQueue with a DevCycleLocalBucketing, EnableCloudBucketing false).  *)
(* failure: "marshal" (json.Marshal of the options), "engine"              *)
(* (initEventQueue) or "none".                                             *)
(***************************************************************************)
\* initialize as it would be without the test of lines 54-56
initialize_NoFlagTest(disableAutomatic, disableCustom, failure) ==
    /\ initState = "new"
    /\ options' = [DisableAutomaticEventLogging |-> disableAutomatic,
                   DisableCustomEventLogging |-> disableCustom]
    /\ initState' = CASE failure = "marshal" -> "marshalFailed"
                      [] failure = "engine" -> "initEventQueueFailed"
                      [] failure = "none" -> "ready"
    /\ pc' = [pc EXCEPT ![Timer] = IF failure # "none" THEN "off" ELSE "select"]
    /\ ret' = [by |-> "init", op |-> "initialize",
               value |-> CASE failure = "marshal" -> "SerializationError"
                           [] failure = "engine" -> "InitError"
                           [] failure = "none" -> Nil,
               flushErr |-> Nil, call |-> NoCall]
    /\ lastReport' = NoReport
    /\ QueueStep
    /\ UNCHANGED <<closed, flushStop, eventsFlushed, eventsReported>>
    /\ UNCHANGED <<engineVars, ghostVars>>
    /\ UNCHANGED <<op, queueSize, payloads, idx, result, sent, owner, poolTodo, flushErr, call>>

\* initialize as it would be if the error of initEventQueue (lines 47-49) were
\* logged and not returned
initialize_SwallowsError(disableAutomatic, disableCustom, failure) ==
    /\ initState = "new"
    /\ options' = [DisableAutomaticEventLogging |-> disableAutomatic,
                   DisableCustomEventLogging |-> disableCustom]
    /\ initState' = CASE failure = "marshal" -> "marshalFailed"
                      [] failure = "engine" -> "initEventQueueFailed"
                      [] failure = "none" -> "ready"
    /\ pc' = [pc EXCEPT ![Timer] =
                 IF failure = "marshal" \/ (disableAutomatic /\ disableCustom)
                   THEN "off" ELSE "select"]
    /\ ret' = [by |-> "init", op |-> "initialize",
               value |-> IF failure = "marshal" THEN "SerializationError" ELSE Nil,
               flushErr |-> Nil, call |-> NoCall]
    /\ lastReport' = NoReport
    /\ QueueStep
    /\ UNCHANGED <<closed, flushStop, eventsFlushed, eventsReported>>
    /\ UNCHANGED <<engineVars, ghostVars>>
    /\ UNCHANGED <<op, queueSize, payloads, idx, result, sent, owner, poolTodo, flushErr, call>>

initialize(disableAutomatic, disableCustom, failure) ==
    /\ initState = "new"
    /\ options' = [DisableAutomaticEventLogging |-> disableAutomatic,
                   DisableCustomEventLogging |-> disableCustom]
    /\ initState' = CASE failure = "marshal" -> "marshalFailed"
                      [] failure = "engine" -> "initEventQueueFailed"
                      [] failure = "none" -> "ready"
    /\ pc' = [pc EXCEPT ![Timer] =
                 IF failure # "none" \/ (disableAutomatic /\ disableCustom)
                   THEN "off" ELSE "select"]
    /\ ret' = [by |-> "init", op |-> "initialize",
               value |-> CASE failure = "marshal" -> "SerializationError"
                           [] failure = "engine" -> "InitError"
                           [] failure = "none" -> Nil,
               flushErr |-> Nil, call |-> NoCall]
    /\ lastReport' = NoReport
    /\ QueueStep
    /\ UNCHANGED <<closed, flushStop, eventsFlushed, eventsReported>>
    /\ UNCHANGED <<engineVars, ghostVars>>
    /\ UNCHANGED <<op, queueSize, payloads, idx, result, sent, owner, poolTodo, flushErr, call>>

(***************************************************************************)
(* The call opname of thread t returns v and the thread goes to label; its *)
(* locals are gone.                                                        *)
(***************************************************************************)
ReturnAs(t, opname, v, label) ==
    /\ pc' = [pc EXCEPT ![t] = label]
    /\ op' = [op EXCEPT ![t] = "none"]
    /\ ret' = [by |-> t, op |-> opname, value |-> v, flushErr |-> flushErr[t],
               call |-> call[t]]
    /\ lastReport' = NoReport
    /\ QueueStep
    /\ call' = [call EXCEPT ![t] = NoCall]
    /\ queueSize' = [queueSize EXCEPT ![t] = 0]
    /\ payloads' = [payloads EXCEPT ![t] = <<>>]
    /\ idx' = [idx EXCEPT ![t] = 0]
    /\ result' = [result EXCEPT ![t] = EmptyResult]
    /\ sent' = [sent EXCEPT ![t] = <<>>]
    /\ owner' = [owner EXCEPT ![t] = Primary]
    /\ poolTodo' = [poolTodo EXCEPT ![t] = <<>>]
    /\ flushErr' = [flushErr EXCEPT ![t] = Nil]

Return(t, v) == ReturnAs(t, op[t], v, "idle")

\* thread t moves to label within the call opname; its locals stay
Enter(t, opname, label) ==
    /\ pc' = [pc EXCEPT ![t] = label]
    /\ op' = [op EXCEPT ![t] = opname]

Goto(t, label) == Enter(t, op[t], label)

Busy(t) == pc[t] \notin {"idle", "off", "select", "stopped"}

(***************************************************************************)
(* lim bounds what may begin: nothing begins once lim.ids PayloadIds have  *)
(* been handed out, nor while lim.active calls and ticks are under way;    *)
(* the threads lim.callers make the calls.                                 *)
(***************************************************************************)
MayBegin(lim) ==
    /\ initState = "ready"
    /\ nextId <= lim.ids
    /\ Cardinality({t \in Threads : Busy(t)}) < lim.active

CanCall(t, lim) ==
    /\ t \in lim.callers
    /\ MayBegin(lim)
    /\ pc[t] = "idle"

\* QueueEvent as it would be without lines 82-84
QueueEvent_NoClosedCheck(t, lim) ==
    /\ CanCall(t, lim)
    /\ Enter(t, "QueueEvent", "checkSize")
    /\ Silent
    /\ UNCHANGED <<queueVars, engineVars, ghostVars>>
    /\ UNCHANGED <<queueSize, payloads, idx, result, sent, owner, poolTodo, flushErr, call>>

(***************************************************************************)
(* QueueEvent, lines 81-84: the closed check.                              *)
(***************************************************************************)
QueueEvent(t, lim) ==
    /\ CanCall(t, lim)
    /\ IF closed
         THEN /\ ret' = [by |-> t, op |-> "QueueEvent", value |-> "Closed",
                         flushErr |-> Nil, call |-> NoCall]
              /\ lastReport' = NoReport
              /\ QueueStep
              /\ UNCHANGED <<op, pc>>
         ELSE /\ Enter(t, "QueueEvent", "checkSize")
              /\ Silent
    /\ UNCHANGED <<queueVars, engineVars, ghostVars>>
    /\ UNCHANGED <<queueSize, payloads, idx, result, sent, owner, poolTodo, flushErr, call>>

(***************************************************************************)
(* checkEventQueueSize, lines 116-121: the size query and the decision to  *)
(* flush.  What follows the flush (lines 122-129) is in finishFlushEvents. *)
(* On a failed query the caller returns its "max event queue size reached" *)
(* error (lines 85-86, 104-105).                                           *)
(***************************************************************************)
\* checkEventQueueSize as it would be if line 120 counted the event to come
checkEventQueueSize_CountsNew(t, caller, queryFails) ==
    /\ IF queryFails
         THEN ReturnAs(t, caller, "QueueFull", "idle")
         ELSE /\ queueSize' = [queueSize EXCEPT ![t] = EngineQueueSize(Primary)]
              /\ Enter(t, caller, IF EngineQueueSize(Primary) + 1 >= FlushEventQueueSize
                                    THEN "startFlush" ELSE "enqueue")
              /\ UNCHANGED <<payloads, idx, result, sent, owner, poolTodo, flushErr, call>>
              /\ Silent
    /\ UNCHANGED <<queueVars, engineVars, ghostVars>>

checkEventQueueSize(t, caller, queryFails) ==
    /\ IF queryFails
         THEN ReturnAs(t, caller, "QueueFull", "idle")
         ELSE /\ queueSize' = [queueSize EXCEPT ![t] = EngineQueueSize(Primary)]
              /\ Enter(t, caller, IF EngineQueueSize(Primary) >= FlushEventQueueSize
                                    THEN "startFlush" ELSE "enqueue")
              /\ UNCHANGED <<payloads, idx, result, sent, owner, poolTodo, flushErr, call>>
              /\ Silent
    /\ UNCHANGED <<queueVars, engineVars, ghostVars>>

\* QueueEvent, line 85
QueueEventCheck(t, queryFails) ==
    /\ pc[t] = "checkSize"
    /\ checkEventQueueSize(t, "QueueEvent", queryFails)

(***************************************************************************)
(* QueueAggregateEvent, lines 103-106: checkEventQueueSize at once.        *)
(***************************************************************************)
QueueAggregateEvent(t, lim, queryFails) ==
    /\ CanCall(t, lim)
    /\ checkEventQueueSize(t, "QueueAggregateEvent", queryFails)

(***************************************************************************)
(* The tail of QueueEvent (lines 88-98) and of QueueAggregateEvent (lines  *)
(* 107-110).  how: "ok", "marshal" (json.Marshal fails) or "engine" (the   *)
(* engine returns an error and buffers nothing).  QueueAggregateEvent      *)
(* overwrites the marshal error with the engine's answer.                  *)
(***************************************************************************)
Forward(t, how) ==
    /\ pc[t] = "enqueue"
    /\ how = "marshal" => op[t] = "QueueEvent"
    /\ buf' = [buf EXCEPT ![Primary] = IF how = "ok" THEN @ + 1 ELSE @]
    /\ Return(t, CASE how = "ok" -> Nil
                   [] how = "marshal" -> "SerializationError"
                   [] how = "engine" -> "EngineError")
    /\ UNCHANGED <<queueVars, pending, flushOpen, nextId, ghostVars>>

(***************************************************************************)
(* FlushEvents.  Line 135: e.localBucketing.startFlushEvents(), by thread  *)
(* t within the call opname.                                               *)
(***************************************************************************)
BeginFlush(t, opname) ==
    /\ flushOpen' = flushOpen + 1
    /\ Enter(t, opname, "drain")
    /\ log' = IF opname = "Close" THEN Append(log, "flush") ELSE log
    /\ call' = [call EXCEPT ![t] =
                   [ran |-> TRUE, failed |-> FALSE, batches |-> 0, reports |-> <<>>,
                    noDrain |-> {}]]
    /\ UNCHANGED <<queueVars, buf, pending, nextId>>
    /\ UNCHANGED <<queueSize, payloads, idx, result, sent, owner, poolTodo, flushErr>>
    /\ Silent
    /\ UNCHANGED <<closeCalled, dispatched, reported, drained>>

\* FlushEvents called directly (DVCClient.FlushEvents, src/client.go:430)
FlushEvents(t, lim) ==
    /\ CanCall(t, lim)
    /\ BeginFlush(t, "FlushEvents")

\* FlushEvents called by checkEventQueueSize (line 121) or by Close (line 297)
startFlushEvents(t) ==
    /\ pc[t] = "startFlush"
    /\ BeginFlush(t, op[t])

\* a drain that is no atomic snapshot-and-clear: the events stay buffered
\* and the next drain hands the same batches over again
TakeBatches_NotAtomic(t, e) ==
    LET batch == DrainBatches(buf[e], nextId) IN
    /\ payloads' = [payloads EXCEPT ![t] = batch]
    /\ idx' = [idx EXCEPT ![t] = 0]
    /\ owner' = [owner EXCEPT ![t] = e]
    /\ buf' = buf
    /\ pending' = [pending EXCEPT ![e] = @ \cup Range(batch)]
    /\ nextId' = nextId
    /\ drained' = [drained EXCEPT ![e] = @ + Len(batch)]
    /\ call' = [call EXCEPT ![t].batches = @ + Len(batch)]

\* the engine e hands its buffered events to thread t as payloads
TakeBatches(t, e) ==
    LET batch == DrainBatches(buf[e], nextId) IN
    /\ payloads' = [payloads EXCEPT ![t] = batch]
    /\ idx' = [idx EXCEPT ![t] = 0]
    /\ owner' = [owner EXCEPT ![t] = e]
    /\ buf' = [buf EXCEPT ![e] = 0]
    /\ pending' = [pending EXCEPT ![e] = @ \cup Range(batch)]
    /\ nextId' = nextId + Len(batch)
    /\ drained' = [drained EXCEPT ![e] = @ + Len(batch)]
    /\ call' = [call EXCEPT ![t].batches = @ + Len(batch)]

\* where thread t goes on once the engine e has had its report
AfterReport(t, e) ==
    LET todo == IF e = Primary THEN bucketingObjectPool ELSE Tail(poolTodo[t])
    IN /\ poolTodo' = [poolTodo EXCEPT ![t] = todo]
       /\ Goto(t, IF todo = <<>> THEN "finishFlush" ELSE "poolDrain")

\* lines 137-140 as they would be if an empty drain were taken for an error
flushEventQueue_EmptyIsError(t, drainFails) ==
    /\ pc[t] = "drain"
    /\ IF drainFails
         THEN /\ flushErr' = [flushErr EXCEPT ![t] = "DrainError"]
              /\ Goto(t, "finishFlush")
              /\ call' = [call EXCEPT ![t].failed = TRUE, ![t].noDrain = @ \cup {Primary}]
              /\ UNCHANGED <<payloads, idx, owner, buf, pending, nextId, drained, poolTodo>>
         ELSE /\ TakeBatches(t, Primary)
              /\ flushErr' = [flushErr EXCEPT ![t] =
                                 IF buf[Primary] = 0 THEN "NothingToFlush" ELSE @]
              /\ Goto(t, IF buf[Primary] = 0 THEN "finishFlush" ELSE "add141")
              /\ UNCHANGED poolTodo
    /\ UNCHANGED <<queueVars, flushOpen>>
    /\ UNCHANGED <<queueSize, result, sent>>
    /\ Silent
    /\ UNCHANGED <<closeCalled, dispatched, reported, log>>

\* lines 137-140 as they would be without the return of line 139: the call
\* goes on with no payloads after a failed drain
flushEventQueue_GoesOn(t, drainFails) ==
    /\ pc[t] = "drain"
    /\ IF drainFails
         THEN /\ flushErr' = [flushErr EXCEPT ![t] = "DrainError"]
              /\ Goto(t, "add141")
              /\ call' = [call EXCEPT ![t].failed = TRUE, ![t].noDrain = @ \cup {Primary}]
              /\ UNCHANGED <<payloads, idx, owner, buf, pending, nextId, drained, poolTodo>>
         ELSE /\ TakeBatches(t, Primary)
              /\ Goto(t, "add141")
              /\ UNCHANGED <<flushErr, poolTodo>>
    /\ UNCHANGED <<queueVars, flushOpen>>
    /\ UNCHANGED <<queueSize, result, sent>>
    /\ Silent
    /\ UNCHANGED <<closeCalled, dispatched, reported, log>>

(***************************************************************************)
(* Lines 137-140: payloads, err := e.localBucketing.flushEventQueue().     *)
(***************************************************************************)
flushEventQueue(t, drainFails) ==
    /\ pc[t] = "drain"
    /\ IF drainFails
         THEN /\ flushErr' = [flushErr EXCEPT ![t] = "DrainError"]
              /\ Goto(t, "finishFlush")
              /\ call' = [call EXCEPT ![t].failed = TRUE, ![t].noDrain = @ \cup {Primary}]
              /\ UNCHANGED <<payloads, idx, owner, buf, pending, nextId, drained, poolTodo>>
         ELSE /\ TakeBatches(t, Primary)
              /\ Goto(t, "add141")
              /\ UNCHANGED <<flushErr, poolTodo>>
    /\ UNCHANGED <<queueVars, flushOpen>>
    /\ UNCHANGED <<queueSize, result, sent>>
    /\ Silent
    /\ UNCHANGED <<closeCalled, dispatched, reported, log>>

\* line 141: e.eventsFlushed.Add(int32(len(payloads)))
AddFlushed141(t) ==
    /\ pc[t] = "add141"
    /\ eventsFlushed' = eventsFlushed + Len(payloads[t])
    /\ Goto(t, "add243")
    /\ UNCHANGED <<options, initState, closed, flushStop, eventsReported>>
    /\ UNCHANGED <<engineVars, ghostVars>>
    /\ UNCHANGED <<queueSize, payloads, idx, result, sent, owner, poolTodo, flushErr, call>>
    /\ Silent

\* lines 243-246 as they would be without the counter's increment of line 243
flushEventPayloads_NoCount(t) ==
    /\ pc[t] = "add243"
    /\ eventsFlushed' = eventsFlushed
    /\ result' = [result EXCEPT ![t] = EmptyResult]
    /\ sent' = [sent EXCEPT ![t] = <<>>]
    /\ Goto(t, IF payloads[t] = <<>> THEN "report" ELSE "send")
    /\ UNCHANGED <<options, initState, closed, flushStop, eventsReported>>
    /\ UNCHANGED <<engineVars, ghostVars>>
    /\ UNCHANGED <<queueSize, payloads, idx, owner, poolTodo, flushErr, call>>
    /\ Silent

\* lines 243-246, flushEventPayloads: the counter and the fresh accumulators
flushEventPayloads(t) ==
    /\ pc[t] = "add243"
    /\ eventsFlushed' = eventsFlushed + Len(payloads[t])
    /\ result' = [result EXCEPT ![t] = EmptyResult]
    /\ sent' = [sent EXCEPT ![t] = <<>>]
    /\ Goto(t, IF payloads[t] = <<>> THEN "report" ELSE "send")
    /\ UNCHANGED <<options, initState, closed, flushStop, eventsReported>>
    /\ UNCHANGED <<engineVars, ghostVars>>
    /\ UNCHANGED <<queueSize, payloads, idx, owner, poolTodo, flushErr, call>>
    /\ Silent

(***************************************************************************)
(* reportPayloadSuccess / reportPayloadFailure, lines 259-288.  The        *)
(* accumulators flushEventPayloads passes are made with make([]string, 0)  *)
(* and so are never nil: the outcome is appended to the accumulator, and   *)
(* the per-payload calls onPayloadSuccess / onPayloadFailure after the nil *)
(* test are not reached.                                                   *)
(***************************************************************************)
reportPayloadSuccess(r, id) ==
    [r EXCEPT !.SuccessPayloads = Append(@, id)]

reportPayloadFailure(r, id, retry) ==
    IF retry
      THEN [r EXCEPT !.FailureWithRetryPayloads = Append(@, id)]
      ELSE [r EXCEPT !.FailurePayloads = Append(@, id)]

\* flushEventPayload as it would be without the return of line 223: a 5xx
\* response goes on to the test of line 226
flushEventPayload_NoReturn(r, id, d) ==
    IF d.fail # "none"
      THEN [result |-> reportPayloadFailure(r, id, FALSE), reported |-> 0]
    ELSE IF d.status >= 500
      THEN [result |-> reportPayloadFailure(reportPayloadFailure(r, id, TRUE), id, FALSE),
            reported |-> 0]
    ELSE IF d.status >= 400
      THEN [result |-> reportPayloadFailure(r, id, FALSE), reported |-> 0]
    ELSE IF d.status = 201
      THEN [result |-> reportPayloadSuccess(r, id), reported |-> 1]
    ELSE [result |-> reportPayloadFailure(r, id, FALSE), reported |-> 0]

\* flushEventPayload as it would be if line 232 took every 2xx for a success
flushEventPayload_Any2xx(r, id, d) ==
    IF d.fail # "none"
      THEN [result |-> reportPayloadFailure(r, id, FALSE), reported |-> 0]
    ELSE IF d.status >= 500
      THEN [result |-> reportPayloadFailure(r, id, TRUE), reported |-> 0]
    ELSE IF d.status >= 400
      THEN [result |-> reportPayloadFailure(r, id, FALSE), reported |-> 0]
    ELSE IF d.status >= 200 /\ d.status < 300
      THEN [result |-> reportPayloadSuccess(r, id), reported |-> 1]
    ELSE [result |-> reportPayloadFailure(r, id, FALSE), reported |-> 0]

(***************************************************************************)
(* flushEventPayload, lines 169-240, for the payload id and the delivery   *)
(* d: the accumulators afterwards and what is added to eventsReported.     *)
(***************************************************************************)
flushEventPayload(r, id, d) ==
    IF d.fail = "marshal"
      THEN [result |-> reportPayloadFailure(r, id, FALSE), reported |-> 0]
    ELSE IF d.fail = "request"
      THEN [result |-> reportPayloadFailure(r, id, FALSE), reported |-> 0]
    ELSE IF d.fail = "transport"
      THEN [result |-> reportPayloadFailure(r, id, FALSE), reported |-> 0]
    ELSE IF d.fail = "read"
      THEN [result |-> reportPayloadFailure(r, id, FALSE), reported |-> 0]
    ELSE IF d.status >= 500
      THEN [result |-> reportPayloadFailure(r, id, TRUE), reported |-> 0]
    ELSE IF d.status >= 400
      THEN [result |-> reportPayloadFailure(r, id, FALSE), reported |-> 0]
    ELSE IF d.status = 201
      THEN [result |-> reportPayloadSuccess(r, id), reported |-> 1]
    ELSE [result |-> reportPayloadFailure(r, id, FALSE), reported |-> 0]

\* lines 248-250: one turn of the loop over the payloads, delivery d
SendPayload(t, d) ==
    /\ pc[t] = "send"
    /\ idx[t] < Len(payloads[t])
    /\ LET payload == payloads[t][idx[t] + 1]
           out == flushEventPayload(result[t], payload.PayloadId, d)
       IN /\ result' = [result EXCEPT ![t] = out.result]
          /\ eventsReported' = eventsReported + out.reported
          /\ dispatched' = dispatched (+) SetToBag({payload.PayloadId})
    /\ sent' = [sent EXCEPT ![t] = Append(@, d)]
    /\ idx' = [idx EXCEPT ![t] = @ + 1]
    /\ Goto(t, IF idx[t] + 1 = Len(payloads[t]) THEN "report" ELSE "send")
    /\ UNCHANGED <<options, initState, closed, flushStop, eventsFlushed>>
    /\ UNCHANGED engineVars
    /\ UNCHANGED <<queueSize, payloads, owner, poolTodo, flushErr, call>>
    /\ Silent
    /\ UNCHANGED <<closeCalled, reported, drained, log>>

\* lines 149 and 159 as they would be if line 159 reported to the primary engine
HandleFlushResults_ToPrimary(t) ==
    /\ pc[t] = "report"
    /\ EngineHandleFlushResults(Primary, result[t])
    /\ AfterReport(t, owner[t])
    /\ payloads' = [payloads EXCEPT ![t] = <<>>]
    /\ idx' = [idx EXCEPT ![t] = 0]
    /\ result' = [result EXCEPT ![t] = EmptyResult]
    /\ sent' = [sent EXCEPT ![t] = <<>>]
    /\ UNCHANGED <<queueVars, flushOpen, nextId>>
    /\ UNCHANGED <<queueSize, owner, flushErr>>
    /\ call' = [call EXCEPT ![t].reports = Append(@, Primary)]
    /\ QueueStep
    /\ ret' = NoReturn
    /\ lastReport' = [engine |-> Primary, payloads |-> payloads[t],
                      sent |-> sent[t], result |-> result[t]]
    /\ UNCHANGED <<closeCalled, dispatched, drained, log>>

\* lines 149-162 as they would be if a result holding a failure ended the
\* call: the members not yet visited are skipped
HandleFlushResults_StopsOnFailure(t) ==
    /\ pc[t] = "report"
    /\ EngineHandleFlushResults(owner[t], result[t])
    /\ IF result[t].FailurePayloads = <<>> /\ result[t].FailureWithRetryPayloads = <<>>
         THEN AfterReport(t, owner[t])
         ELSE /\ poolTodo' = [poolTodo EXCEPT ![t] = <<>>]
              /\ Goto(t, "finishFlush")
    /\ payloads' = [payloads EXCEPT ![t] = <<>>]
    /\ idx' = [idx EXCEPT ![t] = 0]
    /\ result' = [result EXCEPT ![t] = EmptyResult]
    /\ sent' = [sent EXCEPT ![t] = <<>>]
    /\ UNCHANGED <<queueVars, flushOpen, nextId>>
    /\ UNCHANGED <<queueSize, owner, flushErr>>
    /\ call' = [call EXCEPT ![t].reports = Append(@, owner[t])]
    /\ QueueStep
    /\ ret' = NoReturn
    /\ lastReport' = [engine |-> owner[t], payloads |-> payloads[t],
                      sent |-> sent[t], result |-> result[t]]
    /\ UNCHANGED <<closeCalled, dispatched, drained, log>>

(***************************************************************************)
(* Lines 149 and 159: HandleFlushResults(result) on the engine the         *)
(* payloads came from; after the primary engine's, ProcessAll (line 151)   *)
(* starts over the pool members; after a member's, it goes to the next.    *)
(* The payload list and the result are not read again after the report.    *)
(***************************************************************************)
HandleFlushResults(t) ==
    /\ pc[t] = "report"
    /\ EngineHandleFlushResults(owner[t], result[t])
    /\ AfterReport(t, owner[t])
    /\ payloads' = [payloads EXCEPT ![t] = <<>>]
    /\ idx' = [idx EXCEPT ![t] = 0]
    /\ result' = [result EXCEPT ![t] = EmptyResult]
    /\ sent' = [sent EXCEPT ![t] = <<>>]
    /\ UNCHANGED <<queueVars, flushOpen, nextId>>
    /\ UNCHANGED <<queueSize, owner, flushErr>>
    /\ call' = [call EXCEPT ![t].reports = Append(@, owner[t])]
    /\ QueueStep
    /\ ret' = NoReturn
    /\ lastReport' = [engine |-> owner[t], payloads |-> payloads[t],
                      sent |-> sent[t], result |-> result[t]]
    /\ UNCHANGED <<closeCalled, dispatched, drained, log>>

(***************************************************************************)
(* Lines 151-156: the callback ProcessAll runs on the next pool member;    *)
(* object.FlushEvents() fails (the callback returns the error, ProcessAll  *)
(* goes on and returns an error at the end) or hands over its payloads.    *)
(* poolTodo starts with the member being visited.                          *)
(***************************************************************************)
PoolFlushEvents(t, drainFails) ==
    /\ pc[t] = "poolDrain"
    /\ poolTodo[t] # <<>>
    /\ IF drainFails
         THEN /\ flushErr' = [flushErr EXCEPT ![t] = "PoolError"]
              /\ AfterReport(t, Head(poolTodo[t]))
              /\ call' = [call EXCEPT ![t].failed = TRUE,
                                      ![t].noDrain = @ \cup {Head(poolTodo[t])}]
              /\ UNCHANGED <<payloads, idx, owner, buf, pending, nextId, drained>>
         ELSE /\ TakeBatches(t, Head(poolTodo[t]))
              /\ Goto(t, "add243")
              /\ UNCHANGED <<flushErr, poolTodo>>
    /\ UNCHANGED <<queueVars, flushOpen>>
    /\ UNCHANGED <<queueSize, result, sent>>
    /\ Silent
    /\ UNCHANGED <<closeCalled, dispatched, reported, log>>

\* line 136 as it would be without defer: finishFlushEvents is skipped when
\* line 139 returns the drain error
finishFlushEvents_NotDeferred(t) ==
    /\ pc[t] = "finishFlush"
    /\ flushOpen' = IF flushErr[t] = "DrainError" THEN flushOpen ELSE flushOpen - 1
    /\ IF op[t] \in {"FlushEvents", "Close"}
         THEN Return(t, flushErr[t])
       ELSE IF op[t] = "tick"
         THEN ReturnAs(t, "tick", flushErr[t], "select")
       ELSE IF flushErr[t] # Nil
         THEN Return(t, "QueueFull")
       ELSE IF queueSize[t] >= MaxEventQueueSize
         THEN Return(t, "QueueFull")
       ELSE /\ Goto(t, "enqueue")
            /\ payloads' = [payloads EXCEPT ![t] = <<>>]
            /\ idx' = [idx EXCEPT ![t] = 0]
            /\ result' = [result EXCEPT ![t] = EmptyResult]
            /\ sent' = [sent EXCEPT ![t] = <<>>]
            /\ owner' = [owner EXCEPT ![t] = Primary]
            /\ UNCHANGED <<queueSize, poolTodo, flushErr, call>>
            /\ Silent
    /\ log' = IF op[t] = "Close" THEN Append(log, "return") ELSE log
    /\ UNCHANGED <<queueVars, buf, pending, nextId>>
    /\ UNCHANGED <<closeCalled, dispatched, reported, drained>>

(***************************************************************************)
(* Line 136, the deferred finishFlushEvents, and the return of FlushEvents *)
(* to its caller: Close (line 298) and DVCClient.FlushEvents return the    *)
(* error; the ticker goroutine (lines 64-67) logs it and selects again;    *)
(* checkEventQueueSize (lines 122-129) decides on the queueSize it read    *)
(* before the flush.                                                       *)
(***************************************************************************)
finishFlushEvents(t) ==
    /\ pc[t] = "finishFlush"
    /\ flushOpen' = flushOpen - 1
    /\ IF op[t] \in {"FlushEvents", "Close"}
         THEN Return(t, flushErr[t])
       ELSE IF op[t] = "tick"
         THEN ReturnAs(t, "tick", flushErr[t], "select")
       ELSE IF flushErr[t] # Nil
         THEN Return(t, "QueueFull")
       ELSE IF queueSize[t] >= MaxEventQueueSize
         THEN Return(t, "QueueFull")
       ELSE /\ Goto(t, "enqueue")
            /\ payloads' = [payloads EXCEPT ![t] = <<>>]
            /\ idx' = [idx EXCEPT ![t] = 0]
            /\ result' = [result EXCEPT ![t] = EmptyResult]
            /\ sent' = [sent EXCEPT ![t] = <<>>]
            /\ owner' = [owner EXCEPT ![t] = Primary]
            /\ UNCHANGED <<queueSize, poolTodo, flushErr, call>>
            /\ Silent
    /\ log' = IF op[t] = "Close" THEN Append(log, "return") ELSE log
    /\ UNCHANGED <<queueVars, buf, pending, nextId>>
    /\ UNCHANGED <<closeCalled, dispatched, reported, drained>>

(***************************************************************************)
(* Close, lines 294-299: the send on flushStop (a channel of capacity 1:   *)
(* the send waits while it is full), closed = true, FlushEvents.           *)
(***************************************************************************)
Close(t, lim) ==
    /\ CanCall(t, lim)
    /\ ~closeCalled
    /\ flushStop < 1
    /\ flushStop' = flushStop + 1
    /\ closeCalled' = TRUE
    /\ Enter(t, "Close", "setClosed")
    /\ log' = Append(log, "stop")
    /\ UNCHANGED <<options, initState, closed, eventsFlushed, eventsReported>>
    /\ UNCHANGED engineVars
    /\ UNCHANGED <<queueSize, payloads, idx, result, sent, owner, poolTodo, flushErr, call>>
    /\ Silent
    /\ UNCHANGED <<dispatched, reported, drained>>

\* Close as it would be without its FlushEvents (line 297)
SetClosed_NoFlush(t) ==
    /\ pc[t] = "setClosed"
    /\ closed' = TRUE
    /\ ReturnAs(t, "Close", Nil, "idle")
    /\ log' = log \o <<"closed", "return">>
    /\ UNCHANGED <<options, initState, flushStop, eventsFlushed, eventsReported>>
    /\ UNCHANGED engineVars
    /\ UNCHANGED <<closeCalled, dispatched, reported, drained>>

\* line 296: e.closed = true
SetClosed(t) ==
    /\ pc[t] = "setClosed"
    /\ closed' = TRUE
    /\ Goto(t, "startFlush")
    /\ log' = Append(log, "closed")
    /\ UNCHANGED <<options, initState, flushStop, eventsFlushed, eventsReported>>
    /\ UNCHANGED engineVars
    /\ UNCHANGED <<queueSize, payloads, idx, result, sent, owner, poolTodo, flushErr, call>>
    /\ Silent
    /\ UNCHANGED <<closeCalled, dispatched, reported, drained>>

(***************************************************************************)
(* The ticker goroutine, lines 60-74: a tick starts FlushEvents; a message *)
(* on flushStop stops the ticker and ends the goroutine.                   *)
(***************************************************************************)
Tick(lim) ==
    /\ MayBegin(lim)
    /\ pc[Timer] = "select"
    /\ BeginFlush(Timer, "tick")

\* lines 68-71 as they would be without the return of line 71
StopTicker_NoReturn ==
    /\ pc[Timer] = "select"
    /\ flushStop > 0
    /\ flushStop' = flushStop - 1
    /\ Goto(Timer, "select")
    /\ UNCHANGED <<options, initState, closed, eventsFlushed, eventsReported>>
    /\ UNCHANGED <<engineVars, ghostVars>>
    /\ UNCHANGED <<queueSize, payloads, idx, result, sent, owner, poolTodo, flushErr, call>>
    /\ Silent

StopTicker ==
    /\ pc[Timer] = "select"
    /\ flushStop > 0
    /\ flushStop' = flushStop - 1
    /\ Goto(Timer, "stopped")
    /\ UNCHANGED <<options, initState, closed, eventsFlushed, eventsReported>>
    /\ UNCHANGED <<engineVars, ghostVars>>
    /\ UNCHANGED <<queueSize, payloads, idx, result, sent, owner, poolTodo, flushErr, call>>
    /\ Silent

(***************************************************************************)
(* A pool member buffers an event of its own (an evaluation run on it).    *)
(***************************************************************************)
PoolEvaluate(m, lim) ==
    /\ initState = "ready"
    /\ m \in Range(bucketingObjectPool)
    /\ nextId <= lim.ids
    /\ buf[m] < MaxPoolEvents
    /\ buf' = [buf EXCEPT ![m] = @ + 1]
    /\ Silent
    /\ UNCHANGED <<op, pc, queueSize, payloads, idx, result, sent, owner, poolTodo, flushErr, call>>
    /\ UNCHANGED <<queueVars, pending, flushOpen, nextId, ghostVars>>

(***************************************************************************)
(* One step of the queue.  fails: whether a call to the engine or to       *)
(* json.Marshal may fail (a subset of BOOLEAN); answers: the deliveries    *)
(* the endpoint may give.                                                  *)
(***************************************************************************)
FlushStep(t, fails, answers) ==
    \/ startFlushEvents(t)
    \/ \E drainFails \in fails : flushEventQueue(t, drainFails)
    \/ AddFlushed141(t)
    \/ flushEventPayloads(t)
    \/ \E d \in answers : SendPayload(t, d)
    \/ HandleFlushResults(t)
    \/ \E drainFails \in fails : PoolFlushEvents(t, drainFails)
    \/ finishFlushEvents(t)

Step(fails, answers, lim) ==
    \/ \E t \in Workers : QueueEvent(t, lim)
    \/ \E t \in Workers, queryFails \in fails : QueueEventCheck(t, queryFails)
    \/ \E t \in Workers, queryFails \in fails : QueueAggregateEvent(t, lim, queryFails)
    \/ \E t \in Workers :
         \E how \in {"ok"} \cup (IF TRUE \in fails THEN {"marshal", "engine"} ELSE {}) :
            Forward(t, how)
    \/ \E t \in Workers : FlushEvents(t, lim)
    \/ \E t \in Workers : Close(t, lim)
    \/ \E t \in Workers : SetClosed(t)
    \/ Tick(lim)
    \/ StopTicker
    \/ \E m \in Pool : PoolEvaluate(m, lim)
    \/ \E t \in Threads : FlushStep(t, fails, answers)

(***************************************************************************)
(* Callers and the ticker goroutine run concurrently, MaxActive of them at *)
(* a time; the engine and json.Marshal do not fail.                        *)
(***************************************************************************)
ConcurrentAnswers == {Status(201), Status(503)}

Next ==
    Step({FALSE}, ConcurrentAnswers,
         [ids |-> MaxConcIds, active |-> MaxActive, callers |-> Workers])

Spec == Init /\ [][Next]_vars

(***************************************************************************)
(* The same operations when calls do not overlap: one caller, and a call   *)
(* or a tick begins only while no other is under way.  The engine and      *)
(* json.Marshal may fail.  The queue starts before initialize.             *)
(***************************************************************************)
NextSeq ==
    \/ \E a, c \in BOOLEAN, f \in {"none", "marshal", "engine"} : initialize(a, c, f)
    \/ Step(BOOLEAN, EndpointAnswers, [ids |-> MaxIds, active |-> 1, callers |-> {"w1"}])

SpecSeq == InitNew /\ [][NextSeq]_vars

(***************************************************************************)
(* flushEventPayloads alone, on any list of up to MaxBatches payloads and  *)
(* with every delivery: the caller w1 is in FlushEvents, the primary       *)
(* engine has just handed it n payloads and line 141 has counted them.     *)
(***************************************************************************)
InitSend ==
    \E n \in 0..MaxBatches :
        /\ options = [DisableAutomaticEventLogging |-> FALSE,
                      DisableCustomEventLogging |-> FALSE]
        /\ initState = "ready"
        /\ closed = FALSE
        /\ flushStop = 0
        /\ eventsFlushed = n
        /\ eventsReported = 0
        /\ buf = [e \in Engines |-> 0]
        /\ pending = [e \in Engines |->
                         IF e = Primary THEN Range(DrainBatches(n, 1)) ELSE {}]
        /\ flushOpen = 1
        /\ nextId = n + 1
        /\ op = [t \in Threads |-> IF t = "w1" THEN "FlushEvents" ELSE "none"]
        /\ pc = [t \in Threads |-> IF t = "w1" THEN "add243"
                                    ELSE IF t = Timer THEN "select" ELSE "idle"]
        /\ queueSize = [t \in Threads |-> 0]
        /\ payloads = [t \in Threads |-> IF t = "w1" THEN DrainBatches(n, 1) ELSE <<>>]
        /\ idx = [t \in Threads |-> 0]
        /\ result = [t \in Threads |-> EmptyResult]
        /\ sent = [t \in Threads |-> <<>>]
        /\ owner = [t \in Threads |-> Primary]
        /\ poolTodo = [t \in Threads |-> <<>>]
        /\ flushErr = [t \in Threads |-> Nil]
        /\ call = [t \in Threads |->
                      IF t = "w1" THEN [ran |-> TRUE, failed |-> FALSE, batches |-> n,
                                        reports |-> <<>>, noDrain |-> {}]
                      ELSE NoCall]
        /\ ret = NoReturn
        /\ lastReport = NoReport
        /\ closeCalled = FALSE
        /\ dispatched = EmptyBag
        /\ reported = EmptyBag
        /\ drained = [e \in Engines |-> IF e = Primary THEN n ELSE 0]
        /\ log = <<>>
        /\ req = NoRequest
        /\ bucketingObjectPool = <<"o1">>

NextSend ==
    \/ \E t \in Workers : flushEventPayloads(t)
    \/ \E t \in Workers, d \in Deliveries : SendPayload(t, d)

SpecSend == InitSend /\ [][NextSend]_vars

(***************************************************************************)
(* One caller and the ticker goroutine, running concurrently, under fair   *)
(* scheduling: a FlushEvents of the ticker goroutine that can take a step  *)
(* takes one (the engine and the HTTP client return), and the select,      *)
(* which chooses among its ready cases at random, does not pass over the   *)
(* ready case <-e.flushStop for ever.                                      *)
(***************************************************************************)
NextLive ==
    Step({FALSE}, ConcurrentAnswers, [ids |-> MaxConcIds, active |-> MaxActive, callers |-> {"w1"}])

TimerFlushes == FlushStep(Timer, {FALSE}, ConcurrentAnswers)

SpecLive ==
    /\ Init
    /\ [][NextLive]_vars
    /\ WF_vars(TimerFlushes)
    /\ SF_vars(StopTicker)

(***************************************************************************)
(* One caller and the ticker goroutine run concurrently while the engines' *)
(* calls may fail; every request is answered 201.                          *)
(***************************************************************************)
NextFail ==
    Step(BOOLEAN, {Status(201)},
         [ids |-> MaxConcIds, active |-> MaxActive, callers |-> {"w1"}])

SpecFail == Init /\ [][NextFail]_vars

(***************************************************************************)
(* Producers calling QueueEvent, one Close and the ticker goroutine, run   *)
(* concurrently; nothing fails and every request is answered 201, so that  *)
(* an event leaves the primary engine's buffer only by a drain and does    *)
(* not come back.  A call that has begun goes on to its return, the ticker *)
(* fires as long as its goroutine selects, and the goroutine takes the     *)
(* stop message in the end (C11); nobody is bound to call the queue again. *)
(***************************************************************************)
CloseLim == [ids |-> MaxIds, active |-> MaxActive, callers |-> Workers]

\* the steps of a call of thread t that has begun
Continue(t) ==
    \/ QueueEventCheck(t, FALSE)
    \/ Forward(t, "ok")
    \/ SetClosed(t)
    \/ FlushStep(t, {FALSE}, {Status(201)})

NextClose ==
    \/ \E t \in Workers : QueueEvent(t, CloseLim)
    \/ \E t \in Workers : Close(t, CloseLim)
    \/ Tick(CloseLim)
    \/ StopTicker
    \/ \E t \in Threads : Continue(t)

SpecClose ==
    /\ Init
    /\ [][NextClose]_vars
    /\ \A t \in Threads : WF_vars(Continue(t))
    /\ WF_vars(Tick(CloseLim))
    /\ SF_vars(StopTicker)

(***************************************************************************)
(* Calls that do not overlap on a queue whose pool has two members: the    *)
(* engines' calls may fail, and a request is answered 201, 400 or 503 or   *)
(* fails in transport.                                                     *)
(***************************************************************************)
PoolAnswers == EndpointAnswers \cup {Broken("transport")}

InitPool == Fresh("ready", "select", PoolMembers)

NextPool ==
    Step(BOOLEAN, PoolAnswers, [ids |-> MaxIds, active |-> 1, callers |-> {"w1"}])

SpecPool == InitPool /\ [][NextPool]_vars

(***************************************************************************)
(* DVCClient.performRequest (src/client.go).                               *)
(*                                                                         *)
(* exponentialBackoff, lines 601-605.  rand.Float64() is k / JitterSteps   *)
(* (0 <= k < JitterSteps); the result is in units of 1 / BackoffUnit of a  *)
(* millisecond, so that delay * 0.2 * rand.Float64() is the integer        *)
(* delay * k.                                                              *)
(***************************************************************************)
BackoffUnit == 5 * JitterSteps

\* exponentialBackoff as it would be with a factor of 2 for 0.2 in line 603
exponentialBackoff_Factor2(attempt, k) ==
    LET delay == (2 ^ attempt) * 100
        randomSum == delay * 10 * k
    IN (delay * BackoffUnit) + randomSum

exponentialBackoff(attempt, k) ==
    LET delay == (2 ^ attempt) * 100
        randomSum == delay * k
    IN (delay * BackoffUnit) + randomSum

(***************************************************************************)
(* What one run of the function passed to try.Do can meet: prepareRequest  *)
(* fails, callAPI fails, callAPI returns neither a response nor an error,  *)
(* ioutil.ReadAll fails, or a response with a status code is read.         *)
(***************************************************************************)
RequestOutcomes ==
    {Broken(w) : w \in {"prepare", "transport", "nilResponse", "read"}}
        \cup {Status(c) : c \in {200, 404, 500, 503}}

\* the function of lines 481-516 as it would be if line 507 took every status
\* of 400 or more for an error
attemptFunc_Retry4xx(attempt, d) ==
    IF d.fail = "prepare"
      THEN [cont |-> FALSE, err |-> "PrepareError", called |-> FALSE, slept |-> FALSE,
            httpResponse |-> Nil]
    ELSE IF d.fail \in {"transport", "nilResponse"}
      THEN [cont |-> attempt <= 5, err |-> d.fail, called |-> TRUE, slept |-> TRUE,
            httpResponse |-> Nil]
    ELSE IF d.fail = "read"
      THEN [cont |-> attempt <= 5, err |-> "read", called |-> TRUE, slept |-> TRUE,
            httpResponse |-> "response"]
    ELSE LET err == IF d.status >= 400 /\ attempt <= 5 THEN "5xx error on request" ELSE Nil
         IN [cont |-> attempt <= 5, err |-> err, called |-> TRUE, slept |-> err # Nil,
             httpResponse |-> d.status]

(***************************************************************************)
(* Lines 481-516, the function passed to try.Do, run for the attempt-th    *)
(* time and meeting d: the (bool, error) it returns, whether it called     *)
(* callAPI, whether it slept, and the httpResponse it leaves.              *)
(***************************************************************************)
attemptFunc(attempt, d) ==
    IF d.fail = "prepare"
      THEN [cont |-> FALSE, err |-> "PrepareError", called |-> FALSE, slept |-> FALSE,
            httpResponse |-> Nil]
    ELSE IF d.fail \in {"transport", "nilResponse"}
      THEN [cont |-> attempt <= 5, err |-> d.fail, called |-> TRUE, slept |-> TRUE,
            httpResponse |-> Nil]
    ELSE IF d.fail = "read"
      THEN [cont |-> attempt <= 5, err |-> "read", called |-> TRUE, slept |-> TRUE,
            httpResponse |-> "response"]
    ELSE LET err == IF d.status >= 500 /\ attempt <= 5 THEN "5xx error on request" ELSE Nil
         IN [cont |-> attempt <= 5, err |-> err, called |-> TRUE, slept |-> err # Nil,
             httpResponse |-> d.status]

\* try.Do: the function is run again as long as it returns (true, an error)
tryAgain(cont, err) == cont /\ err # Nil

\* lines 466-481: performRequest is called; try.Do starts with attempt 1
performRequest ==
    /\ req.pc = "idle"
    /\ req' = [req EXCEPT !.pc = "try", !.attempt = 1]
    /\ UNCHANGED <<queueVars, engineVars, threadVars, ghostVars, stepVars>>
    /\ UNCHANGED bucketingObjectPool

(***************************************************************************)
(* One run of the function by try.Do, meeting d, rand.Float64() drawing    *)
(* k / JitterSteps if it sleeps; then either the next run or lines 518-521 *)
(* and the return of performRequest.                                       *)
(***************************************************************************)
Attempt(d, k) ==
    /\ req.pc = "try"
    /\ LET a == attemptFunc(req.attempt, d)
           again == tryAgain(a.cont, a.err)
       IN req' = [pc |-> IF again THEN "try" ELSE "done",
                  attempt |-> IF again THEN req.attempt + 1 ELSE req.attempt,
                  tried |-> Append(req.tried, d),
                  calls |-> IF a.called THEN req.calls + 1 ELSE req.calls,
                  sleeps |-> IF a.slept THEN req.sleeps + 1 ELSE req.sleeps,
                  sleep |-> IF a.slept
                              THEN [attempt |-> req.attempt,
                                    length |-> exponentialBackoff(req.attempt, k)]
                              ELSE req.sleep,
                  httpResponse |-> a.httpResponse,
                  err |-> a.err,
                  result |-> IF again THEN Nil
                             ELSE IF a.err # Nil
                               THEN [response |-> Nil, body |-> Nil, err |-> a.err]
                             ELSE [response |-> a.httpResponse, body |-> "read",
                                   err |-> Nil]]
    /\ UNCHANGED <<queueVars, engineVars, threadVars, ghostVars, stepVars>>
    /\ UNCHANGED bucketingObjectPool

NextReq ==
    \/ performRequest
    \/ \E d \in RequestOutcomes, k \in 0..(JitterSteps - 1) : Attempt(d, k)

SpecReq == InitNew /\ [][NextReq]_vars

(***************************************************************************)
(* Properties.                                                             *)
(***************************************************************************)
Quiescent == \A t \in Threads : ~Busy(t)

PayloadIdsOf(ps) == {ps[i].PayloadId : i \in 1..Len(ps)}

\* the step is thread t calling opname
Calls(t, opname) ==
    /\ pc[t] = "idle"
    /\ \/ op'[t] = opname
       \/ ret'.by = t /\ ret'.op = opname

(***************************************************************************)
(* C1: once closed is true, a QueueEvent call returns the Closed error in  *)
(* its first step: it goes no further, the engine is not touched (nothing  *)
(* buffered, drained or reported), nothing is sent and the counters stay.  *)
(***************************************************************************)
C1_ClosedQueueRejects ==
    [][\A t \in Workers :
         closed /\ Calls(t, "QueueEvent") =>
            /\ ret' = [by |-> t, op |-> "QueueEvent", value |-> "Closed",
                       flushErr |-> Nil, call |-> NoCall]
            /\ pc'[t] = "idle"
            /\ UNCHANGED <<engineVars, eventsFlushed, eventsReported, dispatched, reported>>
      ]_vars

\* a QueueEvent call on the closed queue has just returned Closed
C1_Witness ==
    /\ closed
    /\ ret.op = "QueueEvent"
    /\ ret.value = "Closed"

(***************************************************************************)
(* C2, as the specification states it: between calls, eventsFlushed is the *)
(* number of batches drained so far from the primary engine and the pool   *)
(* members together.                                                       *)
(***************************************************************************)
RECURSIVE DrainedFrom(_)
DrainedFrom(es) ==
    IF es = {} THEN 0
    ELSE LET e == CHOOSE x \in es : TRUE IN drained[e] + DrainedFrom(es \ {e})

C2_FlushedCountsBatches ==
    Quiescent => eventsFlushed = DrainedFrom(Engines)

\* what the code keeps instead: a primary batch is counted twice
C2_PrimaryCountedTwice ==
    Quiescent => eventsFlushed = 2 * drained[Primary] + DrainedFrom(Pool)

(***************************************************************************)
(* C3: when the loop over the payloads is over, every PayloadId of the     *)
(* list is in exactly one of the three accumulators, exactly once, nothing *)
(* else is in them, and every payload has been sent exactly once whatever  *)
(* happened to the payloads before it.                                     *)
(***************************************************************************)
C3_EveryBatchOnce ==
    \A t \in Workers :
        pc[t] = "report" =>
            LET ids == PayloadIdsOf(payloads[t])
                out == ResultIds(result[t])
            IN /\ Range(out) = ids
               /\ Len(out) = Cardinality(ids)
               /\ \A id \in ids : CopiesIn(id, dispatched) = 1
               /\ Len(sent[t]) = Len(payloads[t])

\* a list of three or more payloads has been sent, with all three outcomes
C3_Witness ==
    \E t \in Workers :
        /\ pc[t] = "report"
        /\ Len(payloads[t]) >= 3
        /\ result[t].SuccessPayloads # <<>>
        /\ result[t].FailurePayloads # <<>>
        /\ result[t].FailureWithRetryPayloads # <<>>

(***************************************************************************)
(* C4: the accumulator a payload ends in is a function of its delivery: a  *)
(* failure before a response is there is a permanent failure, a status of  *)
(* 500 or more a retryable failure, 400..499 a permanent failure, 201 a    *)
(* success, every other status a permanent failure; eventsReported counts  *)
(* the successes, one each.                                                *)
(***************************************************************************)
Outcome(d) ==
    IF d.fail # "none" THEN "FailurePayloads"
    ELSE IF d.status >= 500 THEN "FailureWithRetryPayloads"
    ELSE IF d.status >= 400 /\ d.status <= 499 THEN "FailurePayloads"
    ELSE IF d.status = 201 THEN "SuccessPayloads"
    ELSE "FailurePayloads"

C4_OutcomeByDelivery ==
    \A t \in Workers :
        /\ \A i \in 1..Len(sent[t]) :
              \A list \in {"SuccessPayloads", "FailurePayloads", "FailureWithRetryPayloads"} :
                 payloads[t][i].PayloadId \in Range(result[t][list])
                     <=> list = Outcome(sent[t][i])
        /\ pc[t] \in {"send", "report"} =>
              eventsReported =
                  Cardinality({i \in 1..Len(sent[t]) : sent[t][i] = Status(201)})

\* a success, a 5xx, and a 2xx that is not 201 have been delivered
C4_Witness ==
    \E t \in Workers :
        /\ pc[t] = "report"
        /\ sent[t] = <<Status(201), Status(503), Status(204)>>
        /\ eventsReported = 1

(***************************************************************************)
(* C5: a payload the endpoint answered with a status of 500 or more is in  *)
(* FailureWithRetryPayloads (and in no other accumulator) of the result    *)
(* that is reported; the report goes to the engine the payload was drained *)
(* from (the engine that holds it pending), no other engine is touched by  *)
(* it, the id has then been reported once; and a payload that has been     *)
(* sent and not yet reported belongs to a flush that is still before its   *)
(* report, so that the report comes before FlushEvents returns.            *)
(***************************************************************************)
C5_RetryGoesToOwner ==
    /\ [](\A id \in BagToSet(dispatched) :
            ~BagIn(id, reported) =>
               \E t \in Threads : /\ pc[t] \in {"send", "report"}
                                   /\ id \in PayloadIdsOf(payloads[t]))
    /\ [][\A t \in Threads :
            pc[t] = "report" /\ pc'[t] # "report" =>
               \A i \in 1..Len(payloads[t]) :
                  sent[t][i].fail = "none" /\ sent[t][i].status >= 500 =>
                     LET p == payloads[t][i] IN
                     /\ lastReport'.engine \in Engines
                     /\ p \in pending[lastReport'.engine]
                     /\ p.PayloadId \in Range(lastReport'.result.FailureWithRetryPayloads)
                     /\ p.PayloadId \notin Range(lastReport'.result.SuccessPayloads)
                     /\ p.PayloadId \notin Range(lastReport'.result.FailurePayloads)
                     /\ \A e \in Engines \ {lastReport'.engine} :
                           pending'[e] = pending[e] /\ buf'[e] = buf[e]
                     /\ CopiesIn(p.PayloadId, reported') = 1
         ]_vars

\* a pool member has just had the report of a payload answered with 503
C5_Witness ==
    /\ lastReport.engine \in Pool
    /\ \E i \in 1..Len(lastReport.sent) :
          /\ lastReport.sent[i] = Status(503)
          /\ lastReport.payloads[i].PayloadId
                 \in Range(lastReport.result.FailureWithRetryPayloads)

(***************************************************************************)
(* C6: a FlushEvents call in which the primary engine and every pool       *)
(* member hand over zero batches returns nil, and as long as a flush has   *)
(* drained nothing its steps send nothing and leave eventsFlushed and      *)
(* eventsReported as they are.                                             *)
(***************************************************************************)
C6_EmptyFlushIsNoOp ==
    /\ [](ret.op = "FlushEvents" /\ ret.call.batches = 0 /\ ~ret.call.failed
             => ret.value = Nil)
    /\ [][(\A t \in Threads : call'[t].batches = 0) =>
             UNCHANGED <<eventsFlushed, eventsReported, dispatched>>]_vars

\* FlushEvents has just returned from a flush that found every buffer empty
C6_Witness ==
    /\ ret.op = "FlushEvents"
    /\ ret.call.ran
    /\ ret.call.batches = 0
    /\ ~ret.call.failed
    /\ ret.value = Nil
    /\ dispatched = EmptyBag
    /\ eventsFlushed = 0

(***************************************************************************)
(* C7, as the specification states it: an enqueue call whose flush ran and *)
(* succeeded is rejected with the queue-full error only if the primary     *)
(* engine still buffers MaxEventQueueSize events or more after that flush  *)
(* (calls do not overlap: the count when the call returns is the count the *)
(* flush left).                                                            *)
(***************************************************************************)
C7_RejectedOnlyIfStillFull ==
    ( /\ ret.op \in {"QueueEvent", "QueueAggregateEvent"}
      /\ ret.call.ran
      /\ ~ret.call.failed
      /\ ret.value = "QueueFull" )
        => buf[Primary] >= MaxEventQueueSize

(***************************************************************************)
(* C8, as the specification states it: the primary engine never buffers    *)
(* more than MaxEventQueueSize events.                                     *)
(***************************************************************************)
C8_HardCeiling == buf[Primary] <= MaxEventQueueSize

(***************************************************************************)
(* C9, as the specification states it: once closed is true, a              *)
(* QueueAggregateEvent call returns the Closed error and forwards nothing  *)
(* to the engine.                                                          *)
(***************************************************************************)
C9_AggregateClosedRejects ==
    [][\A t \in Workers :
         closed /\ Calls(t, "QueueAggregateEvent") =>
            /\ ret'.by = t
            /\ ret'.value = "Closed"
            /\ pc'[t] = "idle"
            /\ UNCHANGED engineVars
      ]_vars

(***************************************************************************)
(* C10.  Close does, in this order and once each: the send on flushStop,   *)
(* closed = true, FlushEvents, return.                                     *)
(***************************************************************************)
CloseSteps == <<"stop", "closed", "flush", "return">>

IsPrefix(s, r) ==
    /\ Len(s) <= Len(r)
    /\ \A i \in 1..Len(s) : s[i] = r[i]

CloseInOrder ==
    /\ IsPrefix(log, CloseSteps)
    /\ closeCalled <=> Len(log) >= 1
    /\ closed <=> Len(log) >= 2

\* every payload drained so far has been sent once and reported once
AllSentAndReported ==
    \A id \in 1..(nextId - 1) :
        CopiesIn(id, dispatched) = 1 /\ CopiesIn(id, reported) = 1

\* the step is a drain of Close's flush, from the engine e
CloseDrains(t, e) ==
    /\ op[t] = "Close"
    /\ \/ e = Primary /\ pc[t] = "drain"
       \/ e \in Pool /\ pc[t] = "poolDrain" /\ poolTodo[t] # <<>> /\ Head(poolTodo[t]) = e
    /\ pc'[t] # pc[t] \/ poolTodo'[t] # poolTodo[t]

\* the drain took everything the engine e had buffered
TookAll(t, e) ==
    /\ buf'[e] = 0
    /\ RecordsOf(Range(payloads'[t])) = buf[e]

(***************************************************************************)
(* C10, as the specification states it: Close's steps are in order, its    *)
(* one FlushEvents drains every event buffered then, everything drained is *)
(* sent, and Close returns the flush's error.                              *)
(***************************************************************************)
C10_CloseFlushesEverything ==
    /\ [](CloseInOrder)
    /\ [](ret.op = "Close" => /\ ret.call.ran
                              /\ ret.value = ret.flushErr
                              /\ AllSentAndReported)
    /\ [][\A t \in Workers, e \in Engines :
            CloseDrains(t, e) => TookAll(t, e)]_vars

(***************************************************************************)
(* C10, amended: Close's steps are in order; each drain of its one         *)
(* FlushEvents that does not fail takes every event the engine buffers     *)
(* then, and a drain that fails takes none; everything drained is sent and *)
(* reported when Close returns; Close returns nil if and only if no drain  *)
(* failed, whatever the endpoint answered.                                 *)
(***************************************************************************)
C10_CloseFlushesUnlessDrainFails ==
    /\ [](CloseInOrder)
    /\ [](ret.op = "Close" => /\ ret.call.ran
                              /\ ret.value = ret.flushErr
                              /\ ret.value = Nil <=> ~ret.call.failed
                              /\ AllSentAndReported)
    /\ [][\A t \in Workers, e \in Engines :
            CloseDrains(t, e) =>
               IF pc'[t] \in {"add141", "add243"}
                 THEN TookAll(t, e) /\ call'[t].failed = call[t].failed
                 ELSE buf'[e] = buf[e] /\ nextId' = nextId]_vars

\* Close has returned nil from a flush that drained two batches or more
C10_Witness ==
    /\ log = CloseSteps
    /\ ret.op = "Close"
    /\ ret.value = Nil
    /\ ret.call.batches >= 2
    /\ buf[Primary] = 0

(***************************************************************************)
(* C11: the ticker goroutine leaves its select only to run one FlushEvents *)
(* (a tick: the flush is begun, and the goroutine is back in the select    *)
(* only when that flush has returned) or, taking the message on flushStop, *)
(* to stop; once the stop signal is in flushStop the goroutine eventually  *)
(* stops, and once stopped it stays stopped and flushes no more.           *)
(***************************************************************************)
C11_TickerFlushesThenStops ==
    /\ [][pc[Timer] = "select" /\ pc'[Timer] # "select" =>
             \/ /\ pc'[Timer] = "drain"
                /\ op'[Timer] = "tick"
                /\ flushOpen' = flushOpen + 1
             \/ /\ pc'[Timer] = "stopped"
                /\ flushStop > 0
                /\ flushStop' = flushStop - 1]_vars
    /\ [][pc[Timer] # "select" /\ pc'[Timer] = "select" =>
             /\ pc[Timer] = "finishFlush"
             /\ ret'.by = Timer /\ ret'.op = "tick" /\ ret'.call.ran]_vars
    /\ [][pc[Timer] = "stopped" => pc'[Timer] = "stopped" /\ op'[Timer] = "none"]_vars
    /\ (flushStop > 0) ~> (pc[Timer] = "stopped")

\* Close has returned, a batch had been drained, and the goroutine has stopped
C11_Witness ==
    /\ pc[Timer] = "stopped"
    /\ flushStop = 0
    /\ closeCalled
    /\ drained[Primary] > 0
    /\ ret.op = "Close"

BothDisabled ==
    options.DisableAutomaticEventLogging /\ options.DisableCustomEventLogging

(***************************************************************************)
(* C12: once initialize has returned with both DisableAutomaticEventLogging *)
(* and DisableCustomEventLogging set, there is no ticker goroutine: it      *)
(* never selects, never flushes; flushStop is empty until Close is called,  *)
(* so that Close's send does not wait, and holds Close's message after.     *)
(***************************************************************************)
C12_NoTickerWhenDisabled ==
    (initState = "ready" /\ BothDisabled) =>
        /\ pc[Timer] = "off"
        /\ op[Timer] = "none"
        /\ call[Timer] = NoCall
        /\ ret.op # "tick"
        /\ flushStop = IF closeCalled THEN 1 ELSE 0

\* with both flags set, Close has run to its end and returned
C12_Witness ==
    /\ BothDisabled
    /\ initState = "ready"
    /\ ret.op = "Close"
    /\ log = CloseSteps
    /\ closed
    /\ flushStop = 1

(***************************************************************************)
(* C13: when the engine's initEventQueue has failed, initialize returns an *)
(* error and there is no ticker goroutine (and nothing runs afterwards).   *)
(***************************************************************************)
C13_InitFailureIsReturned ==
    initState = "initEventQueueFailed" =>
        /\ ret.op = "initialize"
        /\ ret.value # Nil
        /\ pc[Timer] = "off"
        /\ \A t \in Threads : ~Busy(t)

\* initialize has returned the error of initEventQueue, logging not disabled
C13_Witness ==
    /\ initState = "initEventQueueFailed"
    /\ ret = [by |-> "init", op |-> "initialize", value |-> "InitError",
              flushErr |-> Nil, call |-> NoCall]
    /\ ~BothDisabled

(***************************************************************************)
(* C14, as the specification states it: performRequest calls callAPI at    *)
(* most 5 times, and try.Do runs its function at most 5 times.             *)
(***************************************************************************)
C14_AtMostFiveAttempts ==
    /\ req.calls <= 5
    /\ Len(req.tried) <= 5

\* what the code keeps instead: at most 6 runs, after which it has returned
C14_AtMostSixAttempts ==
    /\ req.calls <= 6
    /\ Len(req.tried) <= 6
    /\ Len(req.tried) = 6 => req.pc = "done"

(***************************************************************************)
(* C15: a run that reads a response with a status below 500 is the last    *)
(* one: performRequest returns that response and its body with a nil       *)
(* error, and that run has not slept (as the first run: one call of        *)
(* callAPI, no sleep at all); a run in which prepareRequest fails is the   *)
(* last one too: its error is returned, without a call of callAPI or a     *)
(* sleep in that run.                                                      *)
(***************************************************************************)
C15_NoRetryBelow500 ==
    \A i \in 1..Len(req.tried) :
        LET d == req.tried[i] IN
        /\ (d.fail = "none" /\ d.status < 500) =>
               /\ i = Len(req.tried)
               /\ req.pc = "done"
               /\ req.result = [response |-> d.status, body |-> "read", err |-> Nil]
               /\ req.calls = i
               /\ req.sleeps = i - 1
        /\ d.fail = "prepare" =>
               /\ i = Len(req.tried)
               /\ req.pc = "done"
               /\ req.result = [response |-> Nil, body |-> Nil, err |-> "PrepareError"]
               /\ req.calls = i - 1
               /\ req.sleeps = i - 1

\* the first run has read a 404: performRequest has returned it
C15_Witness ==
    /\ req.tried = <<Status(404)>>
    /\ req.pc = "done"
    /\ req.calls = 1
    /\ req.sleeps = 0
    /\ req.result.response = 404

(***************************************************************************)
(* C16: for every attempt number a in 0..MaxBackoffAttempt and every draw  *)
(* of rand.Float64(), exponentialBackoff(a) is at least 2^a * 100 ms and   *)
(* at most 1.2 times that; 2^a * 100, the value without jitter, does not   *)
(* decrease as a grows; and every sleep of performRequest is such a value. *)
(***************************************************************************)
BackoffInRange(a, length) ==
    /\ length >= (2 ^ a) * 100 * BackoffUnit
    /\ 5 * length <= 6 * (2 ^ a) * 100 * BackoffUnit

C16_BackoffBounds ==
    /\ \A a \in 0..MaxBackoffAttempt, k \in 0..(JitterSteps - 1) :
          BackoffInRange(a, exponentialBackoff(a, k))
    /\ \A a \in 0..(MaxBackoffAttempt - 1) :
          /\ exponentialBackoff(a, 0) = (2 ^ a) * 100 * BackoffUnit
          /\ exponentialBackoff(a, 0) <= exponentialBackoff(a + 1, 0)
    /\ req.sleeps > 0 => BackoffInRange(req.sleep.attempt, req.sleep.length)

\* the third run has slept, with the largest jitter drawn
C16_Witness ==
    /\ req.sleeps = 3
    /\ req.sleep.attempt = 3
    /\ req.sleep.length = exponentialBackoff(3, JitterSteps - 1)
    /\ req.sleep.length > 800 * BackoffUnit

\* the step is the size check of an enqueue call of thread t, the query answered
EnqueueChecks(t) ==
    /\ pc[t] = "checkSize" \/ Calls(t, "QueueAggregateEvent")
    /\ pc'[t] \in {"startFlush", "enqueue"}

(***************************************************************************)
(* C17, as the specification states it: as long as nothing has been        *)
(* drained from the primary engine, the enqueue call that is to add the    *)
(* FlushEventQueueSize-th event begins a flush, and no earlier one does.   *)
(***************************************************************************)
C17_FlushWhenAddingSth ==
    [][\A t \in Workers :
         ( /\ EnqueueChecks(t)
           /\ drained[Primary] = 0
           /\ buf[Primary] < FlushEventQueueSize )
            => (pc'[t] = "startFlush" <=> buf[Primary] + 1 = FlushEventQueueSize)
      ]_vars

(***************************************************************************)
(* C17, amended: an enqueue call begins a flush exactly when the count it  *)
(* reads, before its own event is added, is FlushEventQueueSize or more;   *)
(* as long as nothing has been drained from the primary engine that is the *)
(* call made with FlushEventQueueSize events buffered, the one after the   *)
(* call that added the FlushEventQueueSize-th event.                       *)
(***************************************************************************)
C17_FlushWhenSBuffered ==
    /\ [][\A t \in Workers :
            EnqueueChecks(t) =>
               /\ pc'[t] = "startFlush" <=> buf[Primary] >= FlushEventQueueSize
               /\ queueSize'[t] = buf[Primary]
               /\ drained[Primary] = 0 =>
                     (pc'[t] = "startFlush" <=> buf[Primary] = FlushEventQueueSize)
         ]_vars
    /\ [](\A t \in Workers :
            pc[t] = "enqueue" /\ ~call[t].ran => buf[Primary] < FlushEventQueueSize)

\* with nothing drained yet, a call has found FlushEventQueueSize events and
\* is about to flush
C17_Witness ==
    \E t \in Workers :
        /\ pc[t] = "startFlush"
        /\ op[t] \in {"QueueEvent", "QueueAggregateEvent"}
        /\ queueSize[t] = FlushEventQueueSize
        /\ buf[Primary] = FlushEventQueueSize
        /\ drained[Primary] = 0

(***************************************************************************)
(* C18                                                                     *)
(***************************************************************************)
\* where a thread is between startFlushEvents (line 135) and the deferred
\* finishFlushEvents (line 136) of a FlushEvents call
FlushPcs == {"drain", "add141", "send", "report", "poolDrain", "add243", "finishFlush"}

\* where a thread drains, counts, dispatches or reports
WorkPcs == FlushPcs \ {"finishFlush"}

InFlush == {t \in Threads : pc[t] \in FlushPcs}

\* the threads whose call opens, and closes, its bracket in this step
Begins == {t \in Threads : pc[t] \notin FlushPcs /\ pc'[t] \in FlushPcs}
Ends == {t \in Threads : pc[t] \in FlushPcs /\ pc'[t] \notin FlushPcs}

BracketStep ==
    /\ flushOpen' = flushOpen + Cardinality(Begins) - Cardinality(Ends)
    /\ \A t \in Begins : pc'[t] = "drain" /\ drained' = drained
    /\ \A t \in Ends : pc[t] = "finishFlush"
    /\ \A t \in Threads :
           /\ (pc[t] = "finishFlush" /\ pc'[t] \in FlushPcs) => pc'[t] = "finishFlush"
           /\ (pc[t] \in WorkPcs /\ flushErr[t] # "DrainError"
                  /\ flushErr'[t] = "DrainError") => pc'[t] = "finishFlush"

\* C18: every FlushEvents call opens the primary engine's bracket once, before
\* it drains, and closes it once, after all its dispatching and reporting, on
\* every return path, the failed drain included; the open brackets are as
\* many as the FlushEvents calls in progress.
C18_FlushBracketed ==
    /\ [](flushOpen = Cardinality(InFlush))
    /\ [][BracketStep]_vars

\* two calls are in progress, one of them closing its bracket on the return of
\* the drain error
C18_Witness ==
    /\ flushOpen = 2
    /\ \E t \in Threads : pc[t] = "finishFlush" /\ flushErr[t] = "DrainError"
    /\ \E t \in Threads : pc[t] \in {"send", "report"}

(***************************************************************************)
(* C19                                                                     *)
(***************************************************************************)
\* the engines a call has to report to, in order: the primary engine, then
\* the pool's members, those whose drain failed left out; none when the
\* primary engine's drain failed (line 139)
Served(c) ==
    IF Primary \in c.noDrain THEN <<>>
    ELSE <<Primary>> \o SelectSeq(bucketingObjectPool, LAMBDA m : m \notin c.noDrain)

\* the engine thread t is handling in its FlushEvents call
Visiting(t) == IF call[t].reports = <<>> THEN Primary ELSE Head(poolTodo[t])

\* a drain hands over what the visited engine had buffered, and each report
\* goes to the visited engine with every id drained from it, once, and with
\* no other id, and touches no other engine
MemberStep ==
    \A t \in Threads :
        /\ (pc[t] = "poolDrain" /\ pc'[t] = "add243")
             => LET m == Head(poolTodo[t]) IN
                /\ m \in Pool
                /\ Range(payloads'[t]) = pending'[m] \ pending[m]
                /\ RecordsOf(Range(payloads'[t])) = buf[m]
                /\ buf'[m] = 0
        /\ (pc[t] = "report" /\ pc'[t] # "report")
             => LET e == lastReport'.engine
                    ids == ResultIds(lastReport'.result) IN
                /\ e = Visiting(t)
                /\ Range(payloads[t]) \subseteq pending[e]
                /\ Range(ids) = PayloadIdsOf(payloads[t])
                /\ Len(ids) = Len(payloads[t])
                /\ Cardinality(Range(ids)) = Len(ids)
                /\ pending'[e] \cap Range(payloads[t]) = {}
                /\ call'[t].reports = Append(call[t].reports, e)
                /\ \A o \in Engines \ {e} : pending'[o] = pending[o] /\ buf'[o] = buf[o]
        /\ (pc[t] \in {"send", "add243"} /\ pc'[t] # pc[t])
             => pc'[t] \in {"send", "report"}

\* C19 as stated: in every FlushEvents call in which the primary engine was
\* handled, every pool member has exactly one report, after the primary
\* engine's and in the pool's order, each with exactly the ids drained from
\* the member.
C19_EveryMemberServed ==
    /\ [](ret.call.ran /\ Primary \notin ret.call.noDrain
            => ret.call.reports = <<Primary>> \o bucketingObjectPool)
    /\ [][MemberStep]_vars

\* C19, amended: in every FlushEvents call in which the primary engine's
\* drain succeeded, every pool member whose own drain succeeds has exactly
\* one report, after the primary engine's and in the pool's order, with
\* exactly the ids drained from it, whatever the deliveries of the primary
\* engine's or of other members' batches gave and whether or not another
\* member's drain failed; a member whose drain fails has no report.
C19_MemberServedUnlessItsDrainFails ==
    /\ [](ret.call.ran => ret.call.reports = Served(ret.call))
    /\ [][MemberStep]_vars

\* the second member has the report of its delivered batch in a call in
\* which the primary engine's batch and the first member's batch failed
C19_Witness ==
    /\ lastReport.engine = "o2"
    /\ lastReport.sent = <<Status(201)>>
    /\ call["w1"].reports = <<Primary, "o1", "o2">>
    /\ call["w1"].batches = 3
    /\ eventsReported = 1
    /\ BagCardinality(reported) = 3

(***************************************************************************)
(* C20                                                                     *)
(***************************************************************************)
\* the batches drained by the threads ts that are still before the
\* increment of line 243
RECURSIVE Uncounted(_)
Uncounted(ts) ==
    IF ts = {} THEN 0
    ELSE LET t == CHOOSE u \in ts : TRUE
         IN (IF pc[t] \in {"add141", "add243"} THEN Len(payloads[t]) ELSE 0)
               + Uncounted(ts \ {t})

\* the batches whose increment of eventsFlushed at line 243 has happened
Counted == DrainedFrom(Engines) - Uncounted(Threads)

\* C20: eventsReported never exceeds eventsFlushed, however the FlushEvents
\* calls of the ticker, of producers, of callers and of Close interleave:
\* the batches reported are among the batches whose increment of
\* eventsFlushed has happened, and a step that increments eventsReported
\* adds one for a batch that was counted in an earlier step.
C20_ReportedAtMostFlushed ==
    /\ [](eventsReported <= Counted /\ Counted <= eventsFlushed)
    /\ [][eventsReported' # eventsReported
             => /\ eventsReported' = eventsReported + 1
                /\ eventsFlushed' = eventsFlushed
                /\ eventsReported' <= Counted]_vars

\* two FlushEvents calls are in progress and every batch counted so far has
\* been reported
C20_Witness ==
    /\ flushOpen = 2
    /\ eventsReported >= 1
    /\ eventsReported = Counted

(***************************************************************************)
(* C21                                                                     *)
(***************************************************************************)
\* the ids of a set of payloads
PayloadIdsOf2(ps) == {p.PayloadId : p \in ps}

\* the threads that hold drained batches in their FlushEvents call
Holders == {t \in Threads : pc[t] \in FlushPcs /\ payloads[t] # <<>>}

\* each id of the list ps is once in the accumulators of the result r, and
\* r has no other id
OneOutcomeEach(ps, r) ==
    LET ids == ResultIds(r) IN
    /\ Len(ids) = Len(ps)
    /\ Range(ids) = PayloadIdsOf(ps)
    /\ Cardinality(Range(ids)) = Len(ids)

\* C21: FlushEvents calls overlap, and still every drained batch belongs to
\* one call: no two calls hold the same PayloadId, no PayloadId is held by
\* two engines, none is sent to the endpoint twice or reported twice, and
\* each report gives every batch of its call one outcome.
C21_EachBatchOneCall ==
    /\ [](\A t, u \in Threads :
            t # u => PayloadIdsOf(payloads[t]) \cap PayloadIdsOf(payloads[u]) = {})
    /\ [](\A t \in Threads : Cardinality(PayloadIdsOf(payloads[t])) = Len(payloads[t]))
    /\ [](\A e, o \in Engines :
            e # o => PayloadIdsOf2(pending[e]) \cap PayloadIdsOf2(pending[o]) = {})
    /\ [](\A id \in BagToSet(dispatched) : CopiesIn(id, dispatched) = 1)
    /\ [](\A id \in BagToSet(reported) :
            CopiesIn(id, reported) = 1 /\ BagIn(id, dispatched))
    /\ [][\A t \in Threads :
             pc[t] = "report" /\ pc'[t] # "report"
                => OneOutcomeEach(payloads[t], lastReport'.result)]_vars

\* two FlushEvents calls are under way at once, each sending a batch of its
\* own
C21_Witness ==
    /\ flushOpen = 2
    /\ Cardinality({t \in Holders : pc[t] = "send"}) = 2

(***************************************************************************)
(* C22                                                                     *)
(***************************************************************************)
\* Close has returned
CloseReturned == log = CloseSteps

\* the ticker goroutine takes the case of line 63 and begins FlushEvents
TickBegins == pc[Timer] = "select" /\ pc'[Timer] = "drain"

\* C22: once Close has returned, the ticker goroutine begins no FlushEvents.
\* (Close's send at line 295 goes into the buffer of flushStop and does not
\* wait for the goroutine; with a tick in ticker.C and the message in
\* flushStop the select of line 62 may take either case.)
C22_NoTickAfterClose == [][CloseReturned => ~TickBegins]_vars

\* Close has returned with its message still in flushStop, and the ticker
\* goroutine is in a FlushEvents call begun by a tick
C22_TickAfterClose ==
    /\ CloseReturned
    /\ flushStop = 1
    /\ op[Timer] = "tick"
    /\ pc[Timer] = "drain"

(***************************************************************************)
(* C23                                                                     *)
(***************************************************************************)
\* C23: an event QueueEvent has accepted is drained in the end, also when
\* the QueueEvent call overlaps Close.  (Under SpecClose the events in the
\* primary engine's buffer are the accepted events no drain has taken; the
\* statement is made for the drains up to the bound MaxIds.)
C23_AcceptedIsDrained ==
    (buf[Primary] > 0) ~> (buf[Primary] = 0 \/ nextId > MaxIds)

\* Close has returned, the ticker goroutine has stopped, no call is under
\* way, and an event QueueEvent accepted is in the buffer, never drained
C23_Stranded ==
    /\ CloseReturned
    /\ pc[Timer] = "stopped"
    /\ Quiescent
    /\ buf[Primary] > 0
    /\ nextId = 1

(***************************************************************************)
(* C24                                                                     *)
(***************************************************************************)
EnqueueOps == {"QueueEvent", "QueueAggregateEvent"}

\* nothing is counted, sent, reported, drained or buffered in the step
NothingDone ==
    /\ eventsFlushed' = eventsFlushed
    /\ eventsReported' = eventsReported
    /\ dispatched' = dispatched
    /\ reported' = reported
    /\ drained' = drained
    /\ buf' = buf
    /\ pending' = pending

\* the steps of thread t in a FlushEvents call whose primary drain fails
FailedDrain(t) ==
    /\ (pc[t] = "drain" /\ flushErr'[t] = "DrainError")
         => /\ pc'[t] = "finishFlush"
            /\ flushOpen' = flushOpen
            /\ call'[t].batches = 0 /\ call'[t].reports = <<>>
            /\ NothingDone
    /\ (pc[t] = "finishFlush" /\ flushErr[t] = "DrainError" /\ pc'[t] # pc[t])
         => /\ flushOpen' = flushOpen - 1
            /\ NothingDone
            /\ pc'[t] \in {"idle", "select"}
            /\ ret'.by = t /\ ret'.op = op[t]
            /\ ret'.flushErr = "DrainError"
            /\ ret'.call.ran
            /\ ret'.call.batches = 0
            /\ ret'.call.reports = <<>>
            /\ ret'.call.noDrain = {Primary}
            /\ op[t] \notin EnqueueOps => ret'.value = "DrainError"

\* the steps in which thread t's enqueue call ends on a failed size query or
\* a failed flush, and the only step that forwards an event
Rejected(t) ==
    /\ (op[t] \in EnqueueOps /\ pc[t] = "finishFlush" /\ flushErr[t] # Nil /\ pc'[t] # pc[t])
         => /\ pc'[t] = "idle"
            /\ ret'.by = t /\ ret'.value = "QueueFull"
            /\ buf' = buf
    /\ (pc[t] = "checkSize" /\ pc'[t] = "idle")
         => /\ ret'.by = t /\ ret'.op = "QueueEvent" /\ ret'.value = "QueueFull"
            /\ ~ret'.call.ran
            /\ buf' = buf
    /\ (pc[t] = "idle" /\ pc'[t] = "idle" /\ ret'.by = t /\ ret'.op = "QueueAggregateEvent")
         => /\ ret'.value = "QueueFull"
            /\ buf' = buf
    /\ (ret'.by = t /\ ret'.op \in EnqueueOps /\ buf'[Primary] > buf[Primary])
         => /\ pc[t] = "enqueue"
            /\ ret'.value = Nil
            /\ flushErr[t] = Nil

\* C24: when the primary engine's drain fails, FlushEvents returns that
\* error having sent nothing, counted nothing in eventsFlushed or
\* eventsReported, reported nothing and drained no pool member, and having
\* closed its bracket; an enqueue call whose flush or whose size query
\* fails is rejected and its event is not forwarded to the engine.
C24_FailedDrainEndsFlush == [][\A t \in Threads : FailedDrain(t) /\ Rejected(t)]_vars

\* QueueEvent has been rejected because the drain of the flush it triggered
\* failed; the events are still buffered
C24_Witness ==
    /\ ret.op = "QueueEvent"
    /\ ret.value = "QueueFull"
    /\ ret.flushErr = "DrainError"
    /\ ret.call.ran
    /\ buf[Primary] = FlushEventQueueSize
    /\ eventsFlushed = 0
    /\ flushOpen = 0
====
